---- MODULE Spec2Model ----
(***************************************************************************)
(* MAL Progress Box (src/main.py): a single-shot batch job that, gated by  *)
(* a rate-limit timestamp file, fetches a MyAnimeList list page by page,   *)
(* ranks the in-progress entries, and PATCHes the top five lines into a    *)
(* GitHub gist.                                                            *)
(*                                                                         *)
(* Time is counted in whole minutes.  Titles are one-character strings,    *)
(* written as their code (1 = "A", 2 = "B", ...), so that Python's string  *)
(* order on titles is the order of the codes.  A value that is missing or  *)
(* None in a JSON response is written Null.                                *)
(***************************************************************************)
EXTENDS Integers, Sequences, FiniteSets, TLC

VARIABLES
    clock,              \* the last value time.time() returned (minutes)
    file,               \* RATE_LIMIT_FILE: [kind, value]
    pc,                 \* where the process is: idle, main, auth, fetch, process, patch, exited
    CONTENT_TYPE,       \* os.environ["CONTENT_TYPE"]
    CONTENT_STATUS,     \* os.environ["CONTENT_STATUS"]
    mal_client_id,      \* TRUE iff MAL_CLIENT_ID is set and non-empty
    access_token,       \* TRUE iff MAL_ACCESS_TOKEN is set and non-empty
    offset,             \* request_list_mal_api: offset
    all_entries,        \* request_list_mal_api: all_entries, then main: content
    requests,           \* the offsets of the GET requests sent in this run, in order
    pages,              \* the successful page responses of this run: [items, next]
    last_status,        \* the status of the latest GET response, 0 before it
    progress_data,      \* main: progress_data after the sort
    undefined_progress_data, \* main: undefined_progress_data after the sort
    displayable_data,   \* main: displayable_data
    patch_sent,         \* the PATCH requests sent in this run: [file_name, content]
    exit_code,          \* the exit status of the run, NoExit while it runs
    log,                \* the messages printed in this run
    patch_status,       \* the status of the PATCH response, 0 before it
    writes,             \* how many times this run wrote RATE_LIMIT_FILE
    runStart,           \* the clock value check_rate_limit read in this run
    fileAtStart,        \* RATE_LIMIT_FILE as this run found it
    lastFetchStart,     \* runStart of the latest earlier run that sent a GET
    lastCommitStart     \* runStart of the latest earlier run that wrote the file

vars == <<clock, file, pc, CONTENT_TYPE, CONTENT_STATUS, mal_client_id,
          access_token, offset, all_entries, requests, pages, last_status,
          progress_data, undefined_progress_data, displayable_data, patch_sent,
          patch_status,
          exit_code, log, writes, runStart, fileAtStart, lastFetchStart, lastCommitStart>>

-----------------------------------------------------------------------------
(* Bounds of the model *)

MaxClock == 92          \* the clock stops advancing here
MaxPages == 3           \* the server ends the list by this page
MaxPageLen == 2         \* items per page in SpecFetch
MaxEntries == 6         \* length of the fetched list in SpecRank

(* Program constants *)

RATE_LIMIT_HOURS == 1
MinutesPerHour == 60    \* 3600 seconds
limit == 100
TopN == 5
LineBudget == 54

Null == 0 - 1           \* a missing or None JSON value
NoExit == 0 - 1         \* the process has not exited
NoRun == 0 - 1          \* no such earlier run

-----------------------------------------------------------------------------
(* The rate limiter *)

Absent == [kind |-> "absent", value |-> 0]
Unreadable == [kind |-> "unreadable", value |-> 0]   \* read_text raises OSError
Garbage == [kind |-> "garbage", value |-> 0]         \* float() raises ValueError
Stamp(t) == [kind |-> "number", value |-> t]

\* the < of line 60 turned into <=
check_rate_limit_le(f, now) ==
    IF f.kind = "absent" THEN TRUE
    ELSE IF f.kind = "number"
         THEN ~((now - f.value) <= RATE_LIMIT_HOURS * MinutesPerHour)
         ELSE TRUE

\* the division of line 58 left out: minutes compared with hours
check_rate_limit_units(f, now) ==
    IF f.kind = "absent" THEN TRUE
    ELSE IF f.kind = "number"
         THEN ~((now - f.value) < RATE_LIMIT_HOURS)
         ELSE TRUE

\* check_rate_limit: TRUE iff the update is allowed.
\* hours_since_update < RATE_LIMIT_HOURS, with hours = minutes / 60.
check_rate_limit(f, now) ==
    IF f.kind = "absent" THEN TRUE
    ELSE IF f.kind = "number"
         THEN ~((now - f.value) < RATE_LIMIT_HOURS * MinutesPerHour)
         ELSE TRUE

\* update_rate_limit_timestamp: the file after write_text; an OSError leaves it.
update_rate_limit_timestamp(f, now, oserror) ==
    IF oserror THEN f ELSE Stamp(now)

TickSteps == {0, 29, 30, 31}    \* minutes that may pass between two readings of the clock

-----------------------------------------------------------------------------
(* The list fetcher *)

\* One upstream item of the MAL API v2 response: node and list_status fields.
Item(st, title, ne, wat, nc, nv, rc, rv) ==
    [status |-> st, title |-> title,
     num_episodes |-> ne, num_episodes_watched |-> wat,
     num_chapters |-> nc, num_volumes |-> nv,
     num_chapters_read |-> rc, num_volumes_read |-> rv]

\* `x or 0`
OrZero(x) == IF x = Null THEN 0 ELSE x

\* The conversion of one item to a MALEntry (lines 213-241).
Normalize(item, content_type) ==
    LET status_int == IF item.status \in {"watching", "reading"} THEN 1 ELSE 2
    IN  IF content_type = "anime"
        THEN [status |-> status_int,
              anime_title |-> item.title,
              anime_num_episodes |-> OrZero(item.num_episodes),
              num_watched_episodes |-> item.num_episodes_watched,
              manga_num_chapters |-> 0,
              manga_num_volumes |-> 0,
              num_read_chapters |-> 0,
              num_read_volumes |-> 0]
        ELSE [status |-> status_int,
              anime_title |-> item.title,
              anime_num_episodes |-> 0,
              num_watched_episodes |-> 0,
              manga_num_chapters |-> OrZero(item.num_chapters),
              manga_num_volumes |-> OrZero(item.num_volumes),
              num_read_chapters |-> item.num_chapters_read,
              num_read_volumes |-> item.num_volumes_read]

NormalizeAll(items, content_type) ==
    [i \in 1..Len(items) |-> Normalize(items[i], content_type)]

\* a 404 taken for a page of the list
FetchFailed_no404(status) ==
    status = 401 \/ status = 403 \/ (status # 404 /\ ~(status < 400))

\* Lines 183-203: the response statuses that end the process (resp.ok is status < 400).
FetchFailed(status) ==
    status = 401 \/ status = 403 \/ status = 404 \/ ~(status < 400)

\* the check of the paging cursor (lines 246-248) left out
LastPage_nocursor(items, has_next) ==
    items = <<>>

\* Lines 208-209 and 246-248: the page after which the loop breaks.
LastPage(items, has_next) ==
    items = <<>> \/ ~has_next

\* The message printed to stderr for a failed page (lines 183-203).
FetchErrorLog(status) ==
    IF status = 401 THEN (IF access_token THEN "401_token" ELSE "401_client_id")
    ELSE IF status = 403 THEN "403_private"
    ELSE IF status = 404 THEN "404_user"
    ELSE "mal_api_error"

-----------------------------------------------------------------------------
(* The progress calculator *)

\* round(n / d * 100) for n >= 0, d > 0: Python rounds halves to the even integer.
\* The model's totals are powers of two, for which n / d * 100 is exact in
\* floating point, so the float result is the rational one.
RoundPercent(n, d) ==
    LET q == (n * 100) \div d
        r == (n * 100) % d
    IN  IF 2 * r < d THEN q
        ELSE IF 2 * r > d THEN q + 1
        ELSE IF q % 2 = 0 THEN q ELSE q + 1

\* f"Ep. {n}", f"Ch. {n}", f"Vol. {n}": the prefix and the number printed after it.
Label(prefix, n) == <<prefix, n>>

Ranked(percentage, title) ==
    [kind |-> "ranked", percentage |-> percentage, title |-> title,
     label |-> Label("", 0), count |-> 0]

Unranked(prefix, n, title) ==
    [kind |-> "unranked", percentage |-> 0, title |-> title,
     label |-> Label(prefix, n), count |-> n]

\* Lines 323-335.
ClassifyAnime(entry) ==
    IF entry.anime_num_episodes # 0
    THEN Ranked(RoundPercent(entry.num_watched_episodes, entry.anime_num_episodes),
                entry.anime_title)
    ELSE Unranked("Ep.", entry.num_watched_episodes, entry.anime_title)

\* max(chapter_ratio, volume_ratio) as a fraction <<numerator, denominator>>
\* (lines 339-349); a ratio whose total is 0 is 0.
TypeRatio(entry) ==
    LET rc == entry.num_read_chapters
        tc == entry.manga_num_chapters
        rv == entry.num_read_volumes
        tv == entry.manga_num_volumes
    IN  IF tc = 0 THEN <<rv, tv>>
        ELSE IF tv = 0 THEN <<rc, tc>>
        ELSE IF rc * tv >= rv * tc THEN <<rc, tc>> ELSE <<rv, tv>>

\* the comparison of line 354 turned into >=
ChaptersBranch_ge(read_chapters, read_volumes) ==
    read_chapters >= read_volumes

\* Line 354: the branch that labels an unranked manga entry by its chapters.
ChaptersBranch(read_chapters, read_volumes) ==
    read_chapters > read_volumes

\* Lines 337-369.
ClassifyManga(entry) ==
    IF entry.manga_num_chapters # 0 \/ entry.manga_num_volumes # 0
    THEN Ranked(RoundPercent(TypeRatio(entry)[1], TypeRatio(entry)[2]),
                entry.anime_title)
    ELSE IF ChaptersBranch(entry.num_read_chapters, entry.num_read_volumes)
         THEN Unranked("Ch.", entry.num_read_chapters, entry.anime_title)
         ELSE Unranked("Vol.", entry.num_read_volumes, entry.anime_title)

\* The body of the loop of lines 318-375 for one entry.
Classify(entry, content_type) ==
    IF content_type = "anime" THEN ClassifyAnime(entry) ELSE ClassifyManga(entry)

\* the status test of line 319 left out
InProgress_all(content) == content

\* Line 319: the entries the loop does not skip, in order.
InProgress(content) == SelectSeq(content, LAMBDA e : e.status = 1)

\* Lines 370-375: the loop reaches the else branch at its first in-progress entry.
BadContentType(content, content_type) ==
    content_type \notin {"anime", "manga"} /\ InProgress(content) # <<>>

\* The records of the in-progress entries, in encounter order.
Records(content, content_type) ==
    [i \in 1..Len(InProgress(content)) |-> Classify(InProgress(content)[i], content_type)]

\* progress_data and undefined_progress_data before the sorts.
RankedOf(records) == SelectSeq(records, LAMBDA r : r.kind = "ranked")
UnrankedOf(records) == SelectSeq(records, LAMBDA r : r.kind = "unranked")

-----------------------------------------------------------------------------
(* The ranker and formatter *)

\* Line 378: progress_data holds tuples (percentage, title), and
\* sort(reverse=True) compares whole tuples.
TupleGt(a, b) ==
    a.percentage > b.percentage
        \/ (a.percentage = b.percentage /\ a.title > b.title)

\* Line 379: key=lambda x: x[2], the raw count.
CountGt(a, b) == a.count > b.count

\* list.sort(reverse=True) is descending and stable: elements that compare
\* equal keep their input order.  Where(s, i) is the place of s[i] in the result.
SortProgress(pd) ==
    LET Before(i, j) == TupleGt(pd[i], pd[j]) \/ (~TupleGt(pd[j], pd[i]) /\ i < j)
        Where(i) == 1 + Cardinality({j \in 1..Len(pd) : j # i /\ Before(j, i)})
    IN  [k \in 1..Len(pd) |-> pd[CHOOSE i \in 1..Len(pd) : Where(i) = k]]

SortUndefined(upd) ==
    LET Before(i, j) == CountGt(upd[i], upd[j]) \/ (~CountGt(upd[j], upd[i]) /\ i < j)
        Where(i) == 1 + Cardinality({j \in 1..Len(upd) : j # i /\ Before(j, i)})
    IN  [k \in 1..Len(upd) |-> upd[CHOOSE i \in 1..Len(upd) : Where(i) = k]]

\* the two parts in the wrong order
Combined_swapped(pd, upd) == upd \o pd

\* Lines 382-385: combined_data.
Combined(pd, upd) == pd \o upd

\* Line 386: combined_data[:5].
Displayable(combined) ==
    SubSeq(combined, 1, IF Len(combined) < TopN THEN Len(combined) ELSE TopN)

RECURSIVE Digits(_)
\* len(str(n)) for n >= 0
Digits(n) == IF n < 10 THEN 1 ELSE 1 + Digits(n \div 10)

\* len() of the progress string of a record: "{pct}%", "Ep. n", "Ch. n", "Vol. n".
ProgressLen(r) ==
    IF r.kind = "ranked" THEN Digits(r.percentage) + 1
    ELSE (IF r.label[1] = "Vol." THEN 5 ELSE 4) + Digits(r.count)

\* Lines 393-396: longest_progress_length (of a non-empty displayable_data).
LongestProgressLength(disp) ==
    LET lens == {ProgressLen(disp[i]) : i \in 1..Len(disp)}
    IN  CHOOSE m \in lens : \A x \in lens : x <= m

\* Lines 271-285: the marker of a line.
Emoji(r) ==
    IF r.kind = "unranked" THEN "cooking"
    ELSE IF r.percentage >= 80 THEN "poultry_leg"
    ELSE IF r.percentage >= 60 THEN "chicken"
    ELSE IF r.percentage >= 40 THEN "hatched_chick"
    ELSE IF r.percentage >= 20 THEN "hatching_chick"
    ELSE "egg"

\* format_progress_line: the marker, the progress string with the blanks rjust
\* puts before it, the title, and whether the line is cut to 50 characters + "...".
\* The line is marker, blank, padded progress, ": ", title; a title is one character.
format_progress_line(r, longest_length) ==
    LET width == IF ProgressLen(r) > longest_length THEN ProgressLen(r) ELSE longest_length
        length == 2 + width + 2 + 1
    IN  [emoji |-> Emoji(r), kind |-> r.kind,
         progress |-> IF r.kind = "ranked" THEN Label("%", r.percentage) ELSE r.label,
         pad |-> width - ProgressLen(r),
         title |-> r.title,
         cut |-> length > LineBudget]

\* Lines 399-402: gist_lines.
GistLines(disp) ==
    [i \in 1..Len(disp) |-> format_progress_line(disp[i], LongestProgressLength(disp))]

-----------------------------------------------------------------------------
(* The publisher *)

\* every status filter taken for a valid one
ValidStatus_any(status) == TRUE

\* Lines 90-99: the status filters update_gist publishes for.
ValidStatus(status) == status \in {"current", "completed", "on-hold", "dropped"}

\* Lines 90-96: content_status_normalized.
StatusPhrase(status, content_type) ==
    IF status = "current"
    THEN (IF content_type = "anime" THEN "I'm currently watching"
          ELSE IF content_type = "manga" THEN "I'm currently reading"
          ELSE "")
    ELSE IF status = "completed" THEN "I have completed"
    ELSE IF status = "on-hold" THEN "I have on hold"
    ELSE IF status = "dropped" THEN "I have dropped"
    ELSE ""

\* Line 101: file_name.
FileName(status, content_type) == <<"MAL", content_type, StatusPhrase(status, content_type)>>

\* raise_for_status left out
HTTPError_never(status) == FALSE

\* resp.raise_for_status() raises HTTPError for a 4xx or 5xx status.
HTTPError(status) == status >= 400 /\ status < 600

-----------------------------------------------------------------------------
(* The environment of a run *)

ContentTypes == {"anime", "manga", "movie"}
ContentStatuses == {"current", "completed", "on-hold", "dropped", "watching"}
FetchStatuses == {200, 401, 403, 404, 500}
PatchStatuses == {200, 401, 500}

\* The configuration of the scheduled job in Spec, where the job runs again and again.
ScheduledTypes == {"anime"}
ScheduledStatuses == {"current", "watching"}

\* The items the list-tracking service returns in Spec and SpecRun.
ItemInProgress == Item("watching", 1, 4, 2, 0, 4, 0, 1)
ItemCompleted == Item("completed", 2, 4, 4, 4, 0, 4, 0)
SinglePages == {<<>>, <<ItemInProgress>>, <<ItemCompleted>>}

SeqsUpTo(S, n) == UNION {[1..k -> S] : k \in 0..n}

\* The pages the service returns in SpecFetch.
PageChoices == SeqsUpTo({ItemInProgress, ItemCompleted}, MaxPageLen)

\* The items of the fetched list in SpecRank: as an anime list 50% "A", 50% "B",
\* "Ep. 7" and "Ep. 60"; as a manga list "Ch. 5", a tie of chapters and volumes,
\* volumes ahead of chapters, and 50%.
RankItems ==
    {Item("watching", 1, 4, 2, 0, 0, 5, 2),
     Item("reading", 2, 2, 1, 0, 0, 3, 3),
     Item("watching", 1, Null, 7, Null, 0, 1, 4),
     Item("reading", 3, 0, 60, 8, 2, 1, 1)}

Init ==
    /\ clock = 0
    /\ file \in {Absent, Unreadable, Garbage, Stamp(0), Stamp(31)}
    /\ pc = "idle"
    /\ CONTENT_TYPE = "anime"
    /\ CONTENT_STATUS = "current"
    /\ mal_client_id = FALSE
    /\ access_token = FALSE
    /\ offset = 0
    /\ all_entries = <<>>
    /\ requests = <<>>
    /\ pages = <<>>
    /\ last_status = 0
    /\ progress_data = <<>>
    /\ undefined_progress_data = <<>>
    /\ displayable_data = <<>>
    /\ patch_sent = <<>>
    /\ patch_status = 0
    /\ exit_code = NoExit
    /\ log = {}
    /\ writes = 0
    /\ runStart = 0
    /\ fileAtStart = file
    /\ lastFetchStart = NoRun
    /\ lastCommitStart = NoRun

\* A run that has passed the gate and the credentials check and is about to
\* send its first GET.
InitFetch ==
    /\ clock = 0
    /\ file = Absent
    /\ pc = "fetch"
    /\ CONTENT_TYPE \in {"anime", "manga"}
    /\ CONTENT_STATUS = "current"
    /\ mal_client_id = TRUE
    /\ access_token = FALSE
    /\ offset = 0
    /\ all_entries = <<>>
    /\ requests = <<>>
    /\ pages = <<>>
    /\ last_status = 0
    /\ progress_data = <<>>
    /\ undefined_progress_data = <<>>
    /\ displayable_data = <<>>
    /\ patch_sent = <<>>
    /\ patch_status = 0
    /\ exit_code = NoExit
    /\ log = {IF access_token THEN "oauth" ELSE "client_id"}
    /\ writes = 0
    /\ runStart = 0
    /\ fileAtStart = file
    /\ lastFetchStart = NoRun
    /\ lastCommitStart = NoRun

\* A run whose fetch has returned a list of up to MaxEntries entries in one page.
InitRank ==
    /\ clock = 0
    /\ file = Absent
    /\ pc = "process"
    /\ CONTENT_TYPE \in {"anime", "manga"}
    /\ CONTENT_STATUS = "current"
    /\ mal_client_id = TRUE
    /\ access_token = FALSE
    /\ offset = 0
    /\ \E items \in SeqsUpTo(RankItems, MaxEntries) :
        /\ pages = <<[items |-> items, next |-> FALSE]>>
        /\ all_entries = NormalizeAll(items, CONTENT_TYPE)
    /\ requests = <<0>>
    /\ last_status = 200
    /\ progress_data = <<>>
    /\ undefined_progress_data = <<>>
    /\ displayable_data = <<>>
    /\ patch_sent = <<>>
    /\ patch_status = 0
    /\ exit_code = NoExit
    /\ log = {"client_id", "found"}
    /\ writes = 0
    /\ runStart = 0
    /\ fileAtStart = file
    /\ lastFetchStart = NoRun
    /\ lastCommitStart = NoRun

-----------------------------------------------------------------------------
(* The steps of a run *)

\* sys.exit(code), or main returning (code 0).
Exit(code, messages) ==
    /\ pc' = "exited"
    /\ exit_code' = code
    /\ log' = log \cup messages

\* The module is loaded and reads os.environ (lines 28-32, 299-300), with the
\* content type and status filter among the given ones.
Launch(types, statuses) ==
    /\ pc' = "main"
    /\ CONTENT_TYPE' \in types
    /\ CONTENT_STATUS' \in statuses
    /\ mal_client_id' \in BOOLEAN
    /\ access_token' \in BOOLEAN
    /\ offset' = 0
    /\ all_entries' = <<>>
    /\ requests' = <<>>
    /\ pages' = <<>>
    /\ last_status' = 0
    /\ progress_data' = <<>>
    /\ undefined_progress_data' = <<>>
    /\ displayable_data' = <<>>
    /\ patch_sent' = <<>>
    /\ patch_status' = 0
    /\ exit_code' = NoExit
    /\ log' = {}
    /\ writes' = 0
    /\ fileAtStart' = file
    /\ lastFetchStart' = IF requests # <<>> THEN runStart ELSE lastFetchStart
    /\ lastCommitStart' = IF writes > 0 THEN runStart ELSE lastCommitStart
    /\ UNCHANGED <<clock, file, runStart>>

\* The scheduler starts the job, for the first time or after an earlier run has exited.
Invoke ==
    /\ pc \in {"idle", "exited"}
    /\ Launch(ScheduledTypes, ScheduledStatuses)

\* The job is started once, under any configuration.
Start ==
    /\ pc = "idle"
    /\ Launch(ContentTypes, ContentStatuses)

\* main, lines 294-296, with check_rate_limit.
CheckRateLimit ==
    /\ pc = "main"
    /\ \E d \in TickSteps :
        /\ clock + d <= MaxClock
        /\ clock' = clock + d
        /\ runStart' = clock + d
        /\ IF check_rate_limit(file, clock + d)
           THEN /\ pc' = "auth"
                /\ log' = log \cup (IF file.kind \in {"unreadable", "garbage"}
                                    THEN {"rate_file_warning"} ELSE {})
                /\ UNCHANGED exit_code
           ELSE Exit(0, {"rate_limited", "skipping"})
    /\ UNCHANGED <<file, CONTENT_TYPE, CONTENT_STATUS, mal_client_id, access_token,
                   offset, all_entries, requests, pages, last_status, progress_data,
                   undefined_progress_data, displayable_data, patch_sent,
                   patch_status, writes, fileAtStart, lastFetchStart, lastCommitStart>>

\* main, lines 299-314, and request_list_mal_api up to its loop (lines 141-172).
Authenticate ==
    /\ pc = "auth"
    /\ IF ~mal_client_id /\ ~access_token
       THEN Exit(1, {"no_credentials"})
       ELSE /\ pc' = "fetch"
            /\ log' = log \cup {IF access_token THEN "oauth" ELSE "client_id"}
            /\ UNCHANGED exit_code
    /\ offset' = 0
    /\ all_entries' = <<>>
    /\ UNCHANGED <<clock, file, CONTENT_TYPE, CONTENT_STATUS, mal_client_id,
                   access_token, requests, pages, last_status, progress_data,
                   undefined_progress_data, displayable_data, patch_sent,
                   patch_status, writes, runStart, fileAtStart, lastFetchStart,
                   lastCommitStart>>

\* One turn of the loop of request_list_mal_api (lines 174-251): the GET at the
\* current offset and the handling of its response, a page among `choices`.
\* The service ends the list (a page with no items or no next cursor) by its
\* MaxPages-th page.
LoopTurn(choices) ==
    /\ pc = "fetch"
    /\ \E status \in FetchStatuses, items \in choices, has_next \in BOOLEAN :
        /\ Len(requests) + 1 < MaxPages \/ status # 200 \/ items = <<>> \/ ~has_next
        /\ requests' = Append(requests, offset)
        /\ last_status' = status
        /\ IF FetchFailed(status)
           THEN /\ Exit(1, {FetchErrorLog(status)})
                /\ UNCHANGED <<offset, all_entries, pages>>
           ELSE /\ pages' = Append(pages, [items |-> items, next |-> has_next])
                /\ all_entries' = all_entries \o NormalizeAll(items, CONTENT_TYPE)
                /\ IF LastPage(items, has_next)
                   THEN /\ pc' = "process"
                        /\ log' = log \cup {"found"}
                        /\ UNCHANGED offset
                   ELSE /\ pc' = "fetch"
                        /\ offset' = offset + limit
                        /\ UNCHANGED log
                /\ UNCHANGED exit_code
    /\ UNCHANGED <<clock, file, CONTENT_TYPE, CONTENT_STATUS, mal_client_id,
                   access_token, progress_data, undefined_progress_data,
                   displayable_data, patch_sent, patch_status, writes, runStart,
                   fileAtStart, lastFetchStart, lastCommitStart>>

\* A turn of the loop with a page of at most one item.
FetchPage == LoopTurn(SinglePages)

\* A turn of the loop with a page of up to MaxPageLen items.
FetchLongPage == LoopTurn(PageChoices)

\* main, lines 315-404, and update_gist up to the PATCH it sends (lines 88-107).
Process ==
    /\ pc = "process"
    /\ IF BadContentType(all_entries, CONTENT_TYPE)
       THEN /\ Exit(1, {"bad_content_type"})
            /\ UNCHANGED <<progress_data, undefined_progress_data,
                           displayable_data, patch_sent>>
       ELSE LET records == Records(all_entries, CONTENT_TYPE)
                pd == SortProgress(RankedOf(records))
                upd == SortUndefined(UnrankedOf(records))
                disp == Displayable(Combined(pd, upd))
            IN  /\ progress_data' = pd
                /\ undefined_progress_data' = upd
                /\ displayable_data' = disp
                /\ IF disp = <<>>
                   THEN /\ Exit(0, {"no_items"})
                        /\ UNCHANGED patch_sent
                   ELSE IF ~ValidStatus(CONTENT_STATUS)
                   THEN /\ Exit(0, {"bad_content_status"})
                        /\ UNCHANGED patch_sent
                   ELSE /\ pc' = "patch"
                        /\ patch_sent' = Append(patch_sent,
                              [file_name |-> FileName(CONTENT_STATUS, CONTENT_TYPE),
                               content |-> GistLines(disp)])
                        /\ UNCHANGED <<exit_code, log>>
    /\ UNCHANGED <<clock, file, CONTENT_TYPE, CONTENT_STATUS, mal_client_id,
                   access_token, offset, all_entries, requests, pages, last_status,
                   patch_status, writes, runStart, fileAtStart, lastFetchStart,
                   lastCommitStart>>

\* update_gist, lines 109-115, with update_rate_limit_timestamp: the PATCH
\* response arrives.
PatchResponse ==
    /\ pc = "patch"
    /\ \E status \in PatchStatuses :
        /\ patch_status' = status
        /\ IF HTTPError(status)
           THEN /\ Exit(1, {"gist_error"})
                /\ UNCHANGED <<clock, file, writes>>
           ELSE \E d \in TickSteps, oserror \in BOOLEAN :
                /\ clock + d <= MaxClock
                /\ clock' = clock + d
                /\ file' = update_rate_limit_timestamp(file, clock + d, oserror)
                /\ writes' = IF oserror THEN writes ELSE writes + 1
                /\ Exit(0, {"gist_updated"}
                            \cup (IF oserror THEN {"rate_file_write_warning"} ELSE {}))
    /\ UNCHANGED <<CONTENT_TYPE, CONTENT_STATUS, mal_client_id, access_token,
                   offset, all_entries, requests, pages, last_status, progress_data,
                   undefined_progress_data, displayable_data, patch_sent,
                   runStart, fileAtStart, lastFetchStart, lastCommitStart>>

-----------------------------------------------------------------------------
(* The specifications *)

\* The scheduled job, run again and again as time passes.
Next ==
    \/ Invoke
    \/ CheckRateLimit
    \/ Authenticate
    \/ FetchPage
    \/ Process
    \/ PatchResponse

Spec == Init /\ [][Next]_vars

\* One run of the job under any configuration.
NextRun ==
    \/ Start
    \/ CheckRateLimit
    \/ Authenticate
    \/ FetchPage
    \/ Process
    \/ PatchResponse

SpecRun == Init /\ [][NextRun]_vars

\* The fetch loop; a response to a request sent always arrives.
NextFetch == FetchLongPage

SpecFetch == InitFetch /\ [][NextFetch]_vars /\ WF_vars(NextFetch)

\* The ranking of a fetched list.
NextRank == Process

SpecRank == InitRank /\ [][NextRank]_vars

-----------------------------------------------------------------------------
(* Properties of a run *)

Interval == RATE_LIMIT_HOURS * MinutesPerHour

\* Every GET of the run got a successful response and the loop has ended.
FetchSucceeded ==
    /\ pc \in {"process", "patch", "exited"}
    /\ pages # <<>>
    /\ Len(requests) = Len(pages)

\* check_rate_limit returned False in this run.
RateLimited == "rate_limited" \in log

\* C1: in a run the timestamp file is written at most once, and only after the
\* gist PATCH has returned a success status; a run that ends any other way
\* leaves the file as it found it; and a PATCH is sent only after the list
\* fetch has completed successfully.
C1_TimestampWrittenOnlyAfterPublish ==
    /\ writes <= 1
    /\ Len(patch_sent) <= 1
    /\ (writes = 0 => file = fileAtStart)
    /\ (writes = 1 =>
            /\ patch_sent # <<>>
            /\ patch_status >= 200 /\ patch_status < 300
            /\ pc = "exited" /\ exit_code = 0)
    /\ (patch_sent # <<>> =>
            /\ FetchSucceeded
            /\ LET last == pages[Len(pages)] IN last.items = <<>> \/ ~last.next)
    /\ (pc = "exited" /\ ~(patch_status >= 200 /\ patch_status < 300)
            => file = fileAtStart /\ writes = 0)

C1_Witness ==
    /\ pc = "exited" /\ exit_code = 0
    /\ writes = 1 /\ patch_status = 200
    /\ file # fileAtStart /\ file = Stamp(clock)

\* C2 as claimed: two invocations that both get past the rate-limit gate and
\* send a GET never start less than one interval apart.
C2_FetchingRunsOneIntervalApart ==
    (requests # <<>> /\ lastFetchStart # NoRun)
        => runStart - lastFetchStart >= Interval

\* C2 as amended: an invocation that gets past the gate and sends a GET starts at
\* least one interval after the start of every earlier invocation that published
\* and wrote the timestamp file.
C2_FetchOneIntervalAfterCommit ==
    (requests # <<>> /\ lastCommitStart # NoRun)
        => runStart - lastCommitStart >= Interval

C2_Witness ==
    /\ requests # <<>>
    /\ lastCommitStart # NoRun
    /\ runStart - lastCommitStart >= Interval

\* C3: check_rate_limit returns False iff the file exists, holds a number, and
\* less than one hour has passed since that time; so 30 minutes after it the
\* run is refused and 61 minutes after it the run goes on; and a refused run
\* exits with status 0 having sent no GET and no PATCH.
C3_RateLimitedIffWithinInterval ==
    pc \in {"auth", "fetch", "process", "patch", "exited"} =>
        LET elapsed == runStart - fileAtStart.value
            within == fileAtStart.kind = "number" /\ elapsed < 60
        IN  /\ RateLimited <=> within
            /\ (fileAtStart.kind = "number" /\ elapsed = 30 => RateLimited)
            /\ (fileAtStart.kind = "number" /\ elapsed = 61 => ~RateLimited)
            /\ (RateLimited =>
                    /\ pc = "exited" /\ exit_code = 0
                    /\ requests = <<>> /\ patch_sent = <<>>)

C3_Witness ==
    /\ pc = "exited" /\ exit_code = 0
    /\ RateLimited
    /\ fileAtStart.kind = "number" /\ runStart - fileAtStart.value = 30
    /\ requests = <<>> /\ patch_sent = <<>>

\* The other side of C3: a run 61 minutes after the timestamp goes on to fetch.
C3_AllowedAfter61 ==
    /\ fileAtStart.kind = "number" /\ runStart - fileAtStart.value = 61
    /\ pc = "fetch"

\* C4: the first page response with status 401, 403, 404 or another
\* non-success status ends the process with exit status 1: it is the last
\* request of the run, no offset is requested twice, nothing of the earlier
\* pages is processed, and no PATCH is sent.
C4_FetchFailureIsFatal ==
    (last_status = 401 \/ last_status = 403 \/ last_status = 404
        \/ last_status >= 400) =>
        /\ pc = "exited" /\ exit_code = 1
        /\ Len(requests) = Len(pages) + 1
        /\ \A i, j \in 1..Len(requests) : i # j => requests[i] # requests[j]
        /\ progress_data = <<>> /\ undefined_progress_data = <<>>
        /\ displayable_data = <<>>
        /\ patch_sent = <<>> /\ patch_status = 0
        /\ writes = 0

C4_Witness ==
    /\ last_status = 404
    /\ Len(requests) = 2 /\ Len(pages) = 1
    /\ all_entries # <<>>
    /\ pc = "exited" /\ exit_code = 1
    /\ patch_sent = <<>>

ConfigTypeInvalid == CONTENT_TYPE \notin {"anime", "manga"}
ConfigStatusInvalid == CONTENT_STATUS \notin {"current", "completed", "on-hold", "dropped"}

\* C5 as claimed: with an invalid CONTENT_STATUS or CONTENT_TYPE the run ends
\* without publishing and with exit status 0, whatever list was fetched.
C5_ConfigErrorExitsZero ==
    ((ConfigTypeInvalid \/ ConfigStatusInvalid) /\ FetchSucceeded) =>
        /\ patch_sent = <<>>
        /\ (pc = "exited" => exit_code = 0)

\* C5 as amended: after a successful fetch, an invalid CONTENT_STATUS with a
\* valid CONTENT_TYPE ends the run without publishing and with exit status 0,
\* and is logged when there is a line to display; an invalid CONTENT_TYPE ends
\* the run without publishing, logged and with exit status 1 when the list has
\* an in-progress entry, and with exit status 0 ("No items to display") when
\* it has none.
C5_ConfigErrorNeverPublishes ==
    ((ConfigTypeInvalid \/ ConfigStatusInvalid) /\ FetchSucceeded) =>
        /\ patch_sent = <<>>
        /\ pc # "patch"
        /\ (pc = "exited" /\ ~ConfigTypeInvalid =>
                /\ exit_code = 0
                /\ ("bad_content_status" \in log <=> displayable_data # <<>>)
                /\ ("no_items" \in log <=> displayable_data = <<>>))
        /\ (pc = "exited" /\ ConfigTypeInvalid =>
                IF \E i \in 1..Len(all_entries) : all_entries[i].status = 1
                THEN exit_code = 1 /\ "bad_content_type" \in log
                ELSE exit_code = 0 /\ "no_items" \in log)

C5_Witness ==
    /\ ConfigStatusInvalid /\ ~ConfigTypeInvalid
    /\ FetchSucceeded
    /\ pc = "exited" /\ exit_code = 0
    /\ "bad_content_status" \in log
    /\ displayable_data # <<>>
    /\ patch_sent = <<>>

\* The other case of C5: an invalid content type met by an in-progress entry.
C5_BadTypeExitsOne ==
    /\ ConfigTypeInvalid
    /\ FetchSucceeded
    /\ pc = "exited" /\ exit_code = 1
    /\ "bad_content_type" \in log

\* No item of any page received is in progress.
NoInProgressFetched ==
    \A p \in 1..Len(pages) : \A i \in 1..Len(pages[p].items) :
        pages[p].items[i].status \notin {"watching", "reading"}

\* C8: when the fetch succeeds and no fetched entry is in progress (an empty
\* list included), the run exits with status 0, sends no PATCH and does not
\* write the timestamp file.
C8_NothingToDisplayExitsZero ==
    (FetchSucceeded /\ NoInProgressFetched) =>
        /\ patch_sent = <<>> /\ pc # "patch"
        /\ writes = 0 /\ file = fileAtStart
        /\ (pc = "exited" => exit_code = 0 /\ "no_items" \in log)

C8_Witness ==
    /\ FetchSucceeded /\ NoInProgressFetched
    /\ all_entries # <<>>
    /\ pc = "exited" /\ exit_code = 0
    /\ "no_items" \in log
    /\ patch_sent = <<>> /\ writes = 0

-----------------------------------------------------------------------------
(* Properties of the ranking *)

\* The loop and the sorts of main have run.
RankingDone == pc \in {"patch", "exited"} /\ ~("bad_content_type" \in log)

\* The records of the fetched entries in encounter order, before any sort.
EncounterOrder == Records(all_entries, CONTENT_TYPE)

C6_UnrankedStableAndDescending ==
    RankingDone =>
        /\ \A n \in {undefined_progress_data[i].count :
                        i \in 1..Len(undefined_progress_data)} :
              SelectSeq(undefined_progress_data, LAMBDA r : r.count = n)
                = SelectSeq(UnrankedOf(EncounterOrder), LAMBDA r : r.count = n)
        /\ \A i, j \in 1..Len(progress_data) :
              i < j => progress_data[i].percentage >= progress_data[j].percentage
        /\ \A i, j \in 1..Len(undefined_progress_data) :
              i < j => undefined_progress_data[i].count >= undefined_progress_data[j].count

\* The lines of the text sent to the gist.
PublishedLines == patch_sent[1].content

LineIsRanked(line) == line.progress[1] = "%"

\* The number of fetched entries that yield a Ranked record.
RankedCount == Len(RankedOf(EncounterOrder))

\* C7: the published text has at most 5 lines, every line of a Ranked record
\* stands before every line of an Unranked record whatever the raw counts are,
\* and an Unranked record is published only if there are fewer than 5 Ranked records.
C7_TopFiveRankedFirst ==
    pc = "patch" =>
        /\ Len(PublishedLines) <= 5
        /\ Len(PublishedLines) >= 1
        /\ \A i, j \in 1..Len(PublishedLines) :
              (i < j /\ LineIsRanked(PublishedLines[j])) => LineIsRanked(PublishedLines[i])
        /\ (\E i \in 1..Len(PublishedLines) : ~LineIsRanked(PublishedLines[i]))
              => RankedCount < 5

\* A published text where a Ranked line of 50% stands before the line "Ep. 60".
C7_Witness ==
    /\ pc = "patch"
    /\ Len(PublishedLines) = 5
    /\ \E i, j \in 1..Len(PublishedLines) :
          /\ i < j
          /\ LineIsRanked(PublishedLines[i])
          /\ ~LineIsRanked(PublishedLines[j])
          /\ PublishedLines[i].progress[2] < PublishedLines[j].progress[2]

\* Five Ranked records leave no room for the Unranked records fetched with them.
C7_UnrankedCutOff ==
    /\ pc = "patch"
    /\ RankedCount >= 5
    /\ Len(UnrankedOf(EncounterOrder)) > 0
    /\ \A i \in 1..Len(PublishedLines) : LineIsRanked(PublishedLines[i])

\* The in-progress manga entries with neither total known.
NoTotals == SelectSeq(all_entries,
    LAMBDA e : e.status = 1 /\ e.manga_num_chapters = 0 /\ e.manga_num_volumes = 0)

\* The Unranked record C9 expects of such an entry when ties go to `tie`.
ExpectedUnranked(e, tie) ==
    IF e.num_read_chapters > e.num_read_volumes
        \/ (e.num_read_chapters = e.num_read_volumes /\ tie = "Ch.")
    THEN Unranked("Ch.", e.num_read_chapters, e.anime_title)
    ELSE Unranked("Vol.", e.num_read_volumes, e.anime_title)

UnrankedAsExpected(tie) ==
    /\ Len(undefined_progress_data) = Len(NoTotals)
    /\ \A i \in 1..Len(NoTotals) :
          \E k \in 1..Len(undefined_progress_data) :
              undefined_progress_data[k] = ExpectedUnranked(NoTotals[i], tie)
    /\ \A k \in 1..Len(undefined_progress_data) :
          \E i \in 1..Len(NoTotals) :
              undefined_progress_data[k] = ExpectedUnranked(NoTotals[i], tie)

\* C9 as claimed: a manga entry with total_chapters = 0 and total_volumes = 0
\* yields the Unranked record of the larger of read_chapters and read_volumes,
\* and of the chapters when the two are equal.
C9_TieTakesChapters ==
    (RankingDone /\ CONTENT_TYPE = "manga") => UnrankedAsExpected("Ch.")

\* C9 as amended: ... and of the volumes ("Vol. n") when the two are equal.
C9_TieTakesVolumes ==
    (RankingDone /\ CONTENT_TYPE = "manga") => UnrankedAsExpected("Vol.")

\* A manga list with a tie (3 chapters, 3 volumes) and chapters ahead (5 to 2).
C9_Witness ==
    /\ RankingDone /\ CONTENT_TYPE = "manga"
    /\ \E i \in 1..Len(NoTotals) :
          NoTotals[i].num_read_chapters = NoTotals[i].num_read_volumes
    /\ \E k \in 1..Len(undefined_progress_data) :
          undefined_progress_data[k].label = Label("Vol.", 3)
    /\ \E k \in 1..Len(undefined_progress_data) :
          undefined_progress_data[k].label = Label("Ch.", 5)

-----------------------------------------------------------------------------
(* Properties of the fetch loop *)

\* A page that ends the list: it has no items or carries no next cursor.
EndsList(page) == page.items = <<>> \/ ~page.next

RECURSIVE EntriesOf(_, _)
\* One normalized entry per item of the pages, page after page.
EntriesOf(ps, content_type) ==
    IF ps = <<>> THEN <<>>
    ELSE NormalizeAll(Head(ps).items, content_type) \o EntriesOf(Tail(ps), content_type)

RECURSIVE ItemCount(_)
ItemCount(ps) == IF ps = <<>> THEN 0 ELSE Len(Head(ps).items) + ItemCount(Tail(ps))

\* The requests go to offsets 0, 100, 200, ..., one request per offset; while
\* every response is successful the loop goes on exactly as long as no page has
\* ended the list, and what it holds, and returns, is the concatenation of the
\* items of the pages received.
PaginationInv ==
    /\ \A i \in 1..Len(requests) : requests[i] = (i - 1) * 100
    /\ Len(requests) = Len(pages) =>
          /\ \A i \in 1..(Len(pages) - 1) : ~EndsList(pages[i])
          /\ (pc = "fetch" /\ pages # <<>> => ~EndsList(pages[Len(pages)]))
          /\ (pc = "fetch" => offset = Len(requests) * 100)
          /\ (pc # "fetch" => EndsList(pages[Len(pages)]))
          /\ all_entries = EntriesOf(pages, CONTENT_TYPE)
          /\ Len(all_entries) = ItemCount(pages)

\* C10: PaginationInv holds throughout, and the loop terminates, the service
\* returning a page that ends the list by its MaxPages-th page.
C10_PaginationInOrderAndTerminates ==
    /\ []PaginationInv
    /\ (pc = "fetch") ~> (pc # "fetch")

C10_Witness ==
    /\ pc = "process"
    /\ requests = <<0, 100, 200>>
    /\ Len(pages) = 3
    /\ Len(pages[1].items) = 2 /\ Len(pages[2].items) = 1
    /\ pages[3].items # <<>> /\ ~pages[3].next
    /\ Len(all_entries) = 3 + Len(pages[3].items)

====
